---------------------------- MODULE Spec2Model ----------------------------
(***************************************************************************)
(* The job-search metrics script analyze_job_search.py as a state machine. *)
(*                                                                         *)
(* One run of main() loads the CSV file into the frame df and then calls   *)
(* ten operations on it, one after the other.  Every operation is one      *)
(* action.  The state is the input file, the frame df, the position of     *)
(* main (pc), the exception that ended the run (err), the calls main has   *)
(* made so far (calls), what was printed on the console, the files in the  *)
(* working directory, and the names of the files this run has written, in  *)
(* the order written (written).                                            *)
(*                                                                         *)
(* Numbers that are floats in the program (rates, means) are exact         *)
(* fractions <<numerator, denominator>> in lowest terms; 0/0 (the mean of  *)
(* an empty pandas Series) is NaN == <<0, 0>>.  A Python int/int division  *)
(* by zero raises ZeroDivisionError and is modelled as the run aborting.   *)
(*                                                                         *)
(* matplotlib/seaborn rendering is outside the repository: a plot_*        *)
(* action hands the series it computed to the renderer, which writes the   *)
(* image file holding that series.  The one rendering call that fails on   *)
(* data the script can hand it is ax.table with no row: IndexError.        *)
(*                                                                         *)
(* resample('M', on='Date') of a frame without rows raises AttributeError  *)
(* (ResampleRaises), and nothing in the script catches it: a chart whose   *)
(* subset of the rows is empty ends the run.                               *)
(***************************************************************************)
EXTENDS Integers, Sequences, FiniteSets, TLC

VARIABLES file, pc, run, df, err, calls, console, files, written,
          prevConsole, prevFiles

vars == <<file, pc, run, df, err, calls, console, files, written,
          prevConsole, prevFiles>>

(***************************************************************************)
(* Bounds of the model.                                                    *)
(***************************************************************************)
\* The longest input file, in data rows.
MaxRecords == 3
\* How many times the script is run on the same input file.
MaxRuns == 2

(***************************************************************************)
(* The input: rows of Resumes_Submissions_Submitted.csv.                   *)
(* A CSV Date cell is the text "mm/dd/yyyy".                               *)
(***************************************************************************)
DateText(mm, dd, yyyy) == [mm |-> mm, dd |-> dd, yyyy |-> yyyy]

CsvRow(d, c, t, q, i, r, l, cl) ==
    [Date |-> d, Company |-> c, Title |-> t, Quality |-> q, Interviews |-> i,
     Recruiter |-> r, Closed |-> cl] @@ ("Local/Remote" :> l)

\* The applications an input file may list.  Every value of every field
\* occurs; the dates run from December 2024 to March 2025, several rows
\* share a date or a month, and the last row has a Date cell that is not a
\* calendar date.
RowPool ==
    { CsvRow(DateText(12, 20, 2024), "Acme",    "Engineer", 1, "Y", "Y", "Remote", "Y"),
      CsvRow(DateText(1, 15, 2025),  "Globex",  "Analyst",  2, "N", "N", "Local",  "N"),
      CsvRow(DateText(1, 5, 2025),   "Acme",    "Analyst",  1, "Y", "N", "Remote", "N"),
      CsvRow(DateText(3, 2, 2025),   "Initech", "Engineer", 2, "Y", "Y", "Local",  "I"),
      CsvRow(DateText(3, 2, 2025),   "Globex",  "Engineer", 3, "Y", "N", "Remote", "Y"),
      CsvRow(DateText(12, 20, 2024), "Initech", "Analyst",  3, "N", "Y", "Local",  "I"),
      CsvRow(DateText(1, 15, 2025),  "Acme",    "Engineer", 2, "Y", "N", "Local",  "Y"),
      CsvRow(DateText(2, 10, 2025),  "Initech", "Analyst",  2, "Y", "Y", "Remote", "N"),
      CsvRow(DateText(1, 15, 2025),  "Globex",  "Engineer", 1, "Y", "Y", "Local",  "I"),
      CsvRow(DateText(2, 28, 2025),  "Initech", "Engineer", 1, "N", "N", "Local",  "N"),
      CsvRow(DateText(2, 30, 2025),  "Globex",  "Analyst",  1, "N", "N", "Remote", "N") }

\* The files main may find: no file at all, a file without any line (not
\* even the header), or a header and up to MaxRecords rows.
InputFiles ==
    { [exists |-> FALSE, header |-> FALSE, rows |-> <<>>],
      [exists |-> TRUE, header |-> FALSE, rows |-> <<>>] } \cup
    { [exists |-> TRUE, header |-> TRUE, rows |-> rs] :
        rs \in UNION { [1..n -> RowPool] : n \in 0..MaxRecords } }

(***************************************************************************)
(* Arithmetic and frame helpers.  A boolean selection df[cond] is          *)
(* SelectSeq(df, cond): the rows that satisfy cond, in frame order, as a   *)
(* new frame.                                                              *)
(***************************************************************************)
RECURSIVE GCD(_, _)
GCD(a, b) == IF b = 0 THEN a ELSE GCD(b, a % b)

\* The float n/d, exactly; 0/0 is NaN.
NaN == <<0, 0>>
Frac(n, d) == IF d = 0 THEN NaN ELSE <<n \div GCD(n, d), d \div GCD(n, d)>>

\* The int literal 0 the dashboard starts its recruiter rates with.
Zero == <<0, 1>>

RECURSIVE SumSeq(_)
SumSeq(s) == IF s = <<>> THEN 0 ELSE Head(s) + SumSeq(Tail(s))

\* Series.mean() of a numeric column: NaN on an empty Series.
Mean(s) == Frac(SumSeq(s), Len(s))

\* The column col of frame d.
Column(d, col) == [i \in 1..Len(d) |-> d[i][col]]

\* Series.nunique().
NUnique(s) == Cardinality({ s[i] : i \in 1..Len(s) })

\* sorted(S) for a set of integers.
RECURSIVE SortedInts(_)
SortedInts(S) ==
    IF S = {} THEN <<>>
    ELSE LET m == CHOOSE x \in S : \A y \in S : x <= y
         IN  <<m>> \o SortedInts(S \ {m})

(***************************************************************************)
(* Dates.  A pandas Timestamp is [year, month, day].                       *)
(***************************************************************************)
IsLeap(y) == (y % 4 = 0 /\ y % 100 # 0) \/ y % 400 = 0

DaysInMonth(y, m) ==
    IF m = 2 THEN (IF IsLeap(y) THEN 29 ELSE 28)
    ELSE IF m \in {4, 6, 9, 11} THEN 30 ELSE 31

\* Parseable without the calendar: any day up to 31 in any month.
ParseableAnyDay(text) ==
    /\ text.mm \in 1..12
    /\ text.dd \in 1..31

\* Whether strptime(text, '%m/%d/%Y') accepts the cell.
Parseable(text) ==
    /\ text.mm \in 1..12
    /\ text.dd \in 1..DaysInMonth(text.yyyy, text.mm)

\* pd.to_datetime(text, format='%m/%d/%Y')
to_datetime(text) == [year |-> text.yyyy, month |-> text.mm, day |-> text.dd]

\* Timestamp.strftime('%m/%d/%Y')
strftime(ts) == DateText(ts.month, ts.day, ts.year)

\* Timestamp order.
Earlier(a, b) ==
    \/ a.year < b.year
    \/ a.year = b.year /\ a.month < b.month
    \/ a.year = b.year /\ a.month = b.month /\ a.day < b.day

\* The calendar month of a Timestamp, counted in months.
MonthOrd(ts) == ts.year * 12 + (ts.month - 1)

\* The label resample('M') gives a month bin: the month's last day.
MonthEnd(o) ==
    [year |-> o \div 12, month |-> (o % 12) + 1,
     day |-> DaysInMonth(o \div 12, (o % 12) + 1)]

\* sorted(S) for a set of Timestamps.
RECURSIVE SortedStamps(_)
SortedStamps(S) ==
    IF S = {} THEN <<>>
    ELSE LET m == CHOOSE x \in S : \A y \in S \ {x} : Earlier(x, y)
         IN  <<m>> \o SortedStamps(S \ {m})

\* Resample as a group-by on the month: only the months that have rows.
ResampleOccupiedMonths(d) ==
    LET ords == { MonthOrd(d[i].Date) : i \in 1..Len(d) }
        months == SortedInts(ords)
    IN  [k \in 1..Len(months) |->
            [month |-> MonthEnd(months[k]),
             count |-> Cardinality({ i \in 1..Len(d) :
                                      MonthOrd(d[i].Date) = months[k] })]]

\* frame.resample('M', on='Date').size() on a frame without rows: with on=
\* the frame keeps its integer index, and the resampler, having no bin,
\* asks that index for _with_freq, which only a datetime index has.  The
\* call raises AttributeError.
ResampleRaises(d) == d = <<>>

\* frame.resample('M', on='Date').size() on a frame with rows: one bin for
\* every calendar month from the month of the earliest Date to the month of
\* the latest one, in order, each with the number of rows dated in it.
Resample(d) ==
    LET ords == { MonthOrd(d[i].Date) : i \in 1..Len(d) }
        lo == CHOOSE x \in ords : \A y \in ords : x <= y
        hi == CHOOSE x \in ords : \A y \in ords : x >= y
    IN  [k \in 1..(hi - lo + 1) |->
           [month |-> MonthEnd(lo + k - 1),
            count |-> Cardinality({ i \in 1..Len(d) :
                                     MonthOrd(d[i].Date) = lo + k - 1 })]]

\* set(series.index)
IndexOf(series) == { series[k].month : k \in 1..Len(series) }

\* series.reindex(months, fill_value=0)
Reindex(series, months) ==
    [k \in 1..Len(months) |->
        [month |-> months[k],
         count |-> IF \E j \in 1..Len(series) : series[j].month = months[k]
                   THEN series[CHOOSE j \in 1..Len(series) :
                                   series[j].month = months[k]].count
                   ELSE 0]]

(***************************************************************************)
(* load_data                                                               *)
(***************************************************************************)
\* The frame load_data returns: the rows in file order, Date parsed.
LoadFrame(rows) ==
    [i \in 1..Len(rows) |-> [rows[i] EXCEPT !.Date = to_datetime(rows[i].Date)]]

NoConsole ==
    [basic |-> <<>>, rate_by_quality |-> <<>>, recruiter |-> <<>>,
     status |-> <<>>, closure_by_quality |-> <<>>, closed_interview |-> <<>>,
     timeline |-> <<>>]

\* WriteFile opening an existing file for append: the old content stays.
WriteFileAppending(fs, name, content) ==
    [n \in DOMAIN fs \cup {name} |->
        IF n = name
        THEN (IF name \in DOMAIN fs THEN <<fs[name], content>> ELSE content)
        ELSE fs[n]]

\* open(name, 'w') / savefig(name): the file holds the new content only.
WriteFile(fs, name, content) ==
    [n \in DOMAIN fs \cup {name} |-> IF n = name THEN content ELSE fs[n]]

Abort(e) ==
    /\ pc' = "aborted"
    /\ err' = e

load_data ==
    /\ pc = "load_data"
    /\ calls' = Append(calls, "load_data")
    /\ IF ~file.exists
       THEN Abort("FileNotFoundError") /\ UNCHANGED df
       ELSE IF ~file.header
       THEN Abort("EmptyDataError") /\ UNCHANGED df
       ELSE IF \E i \in 1..Len(file.rows) : ~Parseable(file.rows[i].Date)
       THEN Abort("ValueError") /\ UNCHANGED df
       ELSE /\ df' = LoadFrame(file.rows)
            /\ pc' = "generate_basic_metrics"
            /\ UNCHANGED err
    /\ UNCHANGED <<file, run, console, files, written, prevConsole, prevFiles>>

(***************************************************************************)
(* generate_basic_metrics                                                  *)
(***************************************************************************)
CountWhere(d, col, v) == Len(SelectSeq(d, LAMBDA r : r[col] = v))

BasicMetrics(d) ==
    [total |-> Len(d),
     unique_companies |-> NUnique(Column(d, "Company")),
     interviews |-> CountWhere(d, "Interviews", "Y"),
     recruiters |-> CountWhere(d, "Recruiter", "Y"),
     remote |-> CountWhere(d, "Local/Remote", "Remote"),
     local |-> CountWhere(d, "Local/Remote", "Local"),
     closed |-> CountWhere(d, "Closed", "Y"),
     open |-> CountWhere(d, "Closed", "N"),
     unknown |-> CountWhere(d, "Closed", "I"),
     average_quality |-> Mean(Column(d, "Quality"))]

generate_basic_metrics ==
    /\ pc = "generate_basic_metrics"
    /\ calls' = Append(calls, "generate_basic_metrics")
    /\ console' = [console EXCEPT !.basic = <<BasicMetrics(df)>>]
    /\ pc' = "plot_applications_over_time"
    /\ UNCHANGED <<file, run, df, err, files, written, prevConsole, prevFiles>>

(***************************************************************************)
(* plot_applications_over_time, plot_quality_distribution,                 *)
(* plot_interviews_per_month                                               *)
(***************************************************************************)
\* monthly_apps
MonthlyApps(d) == Resample(d)

\* With no row in the file, line 104 raises before anything is drawn.
plot_applications_over_time ==
    /\ pc = "plot_applications_over_time"
    /\ calls' = Append(calls, "plot_applications_over_time")
    /\ IF ResampleRaises(df)
       THEN Abort("AttributeError") /\ UNCHANGED <<files, written>>
       ELSE /\ written' = Append(written, "applications_over_time.png")
            /\ files' = WriteFile(files, "applications_over_time.png",
                                  MonthlyApps(df))
            /\ pc' = "plot_quality_distribution"
            /\ UNCHANGED err
    /\ UNCHANGED <<file, run, df, console, prevConsole, prevFiles>>

\* Qualities taken from the rating scale 1..3 instead of from the rows.
QualitiesOfScale(d) == <<1, 2, 3>>

\* sorted(df['Quality'].unique())
Qualities(d) == SortedInts({ d[i].Quality : i \in 1..Len(d) })

\* sns.countplot(data=df, x='Quality'): one bar per quality present.
QualityCounts(d) ==
    [k \in 1..Len(Qualities(d)) |->
        <<Qualities(d)[k], CountWhere(d, "Quality", Qualities(d)[k])>>]

\* main gets here only with a frame that has rows: an empty one ends the
\* run in plot_applications_over_time.
plot_quality_distribution ==
    /\ pc = "plot_quality_distribution"
    /\ calls' = Append(calls, "plot_quality_distribution")
    /\ written' = Append(written, "quality_distribution.png")
    /\ files' = WriteFile(files, "quality_distribution.png", QualityCounts(df))
    /\ pc' = "plot_interviews_per_month"
    /\ UNCHANGED <<file, run, df, err, console, prevConsole, prevFiles>>

\* index.strftime('%B %Y'): month name and year of every bin.
MonthLabels(months) ==
    [k \in 1..Len(months) |-> <<months[k].month, months[k].year>>]

\* df[interviews_mask]
InterviewedRows(d) == SelectSeq(d, LAMBDA r : r.Interviews = "Y")

\* monthly_interviews
MonthlyInterviews(d) == Resample(InterviewedRows(d))

\* With no interviewed row, line 123 raises before anything is drawn.
plot_interviews_per_month ==
    /\ pc = "plot_interviews_per_month"
    /\ calls' = Append(calls, "plot_interviews_per_month")
    /\ IF ResampleRaises(InterviewedRows(df))
       THEN Abort("AttributeError") /\ UNCHANGED <<files, written>>
       ELSE /\ written' = Append(written, "interviews_per_month.png")
            /\ files' = WriteFile(files, "interviews_per_month.png",
                           [series |-> MonthlyInterviews(df),
                            labels |-> MonthLabels(
                                [k \in 1..Len(MonthlyInterviews(df)) |->
                                    MonthlyInterviews(df)[k].month])])
            /\ pc' = "plot_high_quality_interviews_per_month"
            /\ UNCHANGED err
    /\ UNCHANGED <<file, run, df, console, prevConsole, prevFiles>>

(***************************************************************************)
(* plot_high_quality_interviews_per_month                                  *)
(***************************************************************************)
\* all_months: the sorted union of the two tiers' month bins.
AllMonths(monthly_q1, monthly_q2) ==
    SortedStamps(IndexOf(monthly_q1) \cup IndexOf(monthly_q2))

\* Lines 164-165 raise when no Quality-1 row, or no Quality-2 row, was
\* interviewed: the tier's frame has no row to resample.
HighQualityPerMonthRaises(d) ==
    LET interviews_df == SelectSeq(d, LAMBDA r : r.Interviews = "Y")
        q1_interviews == SelectSeq(interviews_df, LAMBDA r : r.Quality = 1)
        q2_interviews == SelectSeq(interviews_df, LAMBDA r : r.Quality = 2)
    IN  ResampleRaises(q1_interviews) \/ ResampleRaises(q2_interviews)

\* What the function computes when both tiers have an interview: the shared
\* frame as it leaves it, and the two aligned series it plots.
HighQualityPerMonth(d) ==
    LET interviews_df == SelectSeq(d, LAMBDA r : r.Interviews = "Y")
        q1_interviews == SelectSeq(interviews_df, LAMBDA r : r.Quality = 1)
        q2_interviews == SelectSeq(interviews_df, LAMBDA r : r.Quality = 2)
        monthly_q1 == Resample(q1_interviews)
        monthly_q2 == Resample(q2_interviews)
        all_months == AllMonths(monthly_q1, monthly_q2)
    IN  [frame |-> d,
         all_months |-> all_months,
         monthly_q1 |-> Reindex(monthly_q1, all_months),
         monthly_q2 |-> Reindex(monthly_q2, all_months),
         month_labels |-> MonthLabels(all_months)]

\* plot_high_quality_interviews_per_month with main going on to the
\* closed-positions chart: the call of the table chart is left out.
plot_high_quality_interviews_per_month_then_closed ==
    /\ pc = "plot_high_quality_interviews_per_month"
    /\ calls' = Append(calls, "plot_high_quality_interviews_per_month")
    /\ IF HighQualityPerMonthRaises(df)
       THEN Abort("AttributeError") /\ UNCHANGED <<df, files, written>>
       ELSE /\ df' = HighQualityPerMonth(df).frame
            /\ written' = Append(written, "high_quality_interviews_per_month.png")
            /\ files' = WriteFile(files, "high_quality_interviews_per_month.png",
                           [all_months |-> HighQualityPerMonth(df).all_months,
                            monthly_q1 |-> HighQualityPerMonth(df).monthly_q1,
                            monthly_q2 |-> HighQualityPerMonth(df).monthly_q2,
                            month_labels |-> HighQualityPerMonth(df).month_labels])
            /\ pc' = "plot_closed_positions_distribution"
            /\ UNCHANGED err
    /\ UNCHANGED <<file, run, console, prevConsole, prevFiles>>

plot_high_quality_interviews_per_month ==
    /\ pc = "plot_high_quality_interviews_per_month"
    /\ calls' = Append(calls, "plot_high_quality_interviews_per_month")
    /\ IF HighQualityPerMonthRaises(df)
       THEN Abort("AttributeError") /\ UNCHANGED <<df, files, written>>
       ELSE /\ df' = HighQualityPerMonth(df).frame
            /\ written' = Append(written, "high_quality_interviews_per_month.png")
            /\ files' = WriteFile(files, "high_quality_interviews_per_month.png",
                           [all_months |-> HighQualityPerMonth(df).all_months,
                            monthly_q1 |-> HighQualityPerMonth(df).monthly_q1,
                            monthly_q2 |-> HighQualityPerMonth(df).monthly_q2,
                            month_labels |-> HighQualityPerMonth(df).month_labels])
            /\ pc' = "plot_high_quality_interview_table"
            /\ UNCHANGED err
    /\ UNCHANGED <<file, run, console, prevConsole, prevFiles>>

(***************************************************************************)
(* plot_high_quality_interview_table                                       *)
(***************************************************************************)
display_cols == <<"Date", "Company", "Title", "Quality", "Local/Remote", "Closed">>

\* sort_values('Date'): ascending by Date.  numpy sorts arrays this short by
\* insertion, so rows with equal dates keep their frame order.
RECURSIVE InsertByDate(_, _)
InsertByDate(sorted, r) ==
    IF sorted = <<>> THEN <<r>>
    ELSE IF Earlier(r.Date, sorted[Len(sorted)].Date)
         THEN InsertByDate(SubSeq(sorted, 1, Len(sorted) - 1), r)
                  \o <<sorted[Len(sorted)]>>
         ELSE sorted \o <<r>>

\* SortByDate with the sorted result dropped: the rows stay in frame order.
SortDropped(d) == d

RECURSIVE SortByDate(_)
SortByDate(d) ==
    IF d = <<>> THEN <<>>
    ELSE InsertByDate(SortByDate(SubSeq(d, 1, Len(d) - 1)), d[Len(d)])

\* The mask of line 23.
HighQualityInterview(r) == r.Quality \in {1, 2} /\ r.Interviews = "Y"

\* frame[display_cols].values: every row as the list of its display cells.
Values(d, cols) == [i \in 1..Len(d) |-> [c \in 1..Len(cols) |-> d[i][cols[c]]]]

\* HighQualityTable reformatting the Date cells of the shared frame's rows
\* instead of a copy's.
HighQualityTableInPlace(d) ==
    LET sorted == SortByDate(SelectSeq(d, HighQualityInterview))
        high_quality_interviews ==
            [i \in 1..Len(sorted) |->
                [sorted[i] EXCEPT !.Date = strftime(sorted[i].Date)]]
    IN  [frame |-> [i \in 1..Len(d) |->
                      IF HighQualityInterview(d[i])
                      THEN [d[i] EXCEPT !.Date = strftime(d[i].Date)]
                      ELSE d[i]],
         table_data |-> Values(high_quality_interviews, display_cols)]

\* What the function computes: the shared frame as it leaves it, and the
\* cell text of the table.  The filtered rows are a copy; the Date column is
\* reformatted on the copy.
HighQualityTable(d) ==
    LET copy == SelectSeq(d, HighQualityInterview)
        sorted == SortByDate(copy)
        high_quality_interviews ==
            [i \in 1..Len(sorted) |->
                [sorted[i] EXCEPT !.Date = strftime(sorted[i].Date)]]
    IN  [frame |-> d,
         table_data |-> Values(high_quality_interviews, display_cols)]

\* ax.table(cellText=table_data, ...) at line 43 takes the number of columns
\* from the first row of cellText: with no row selected by the mask it raises
\* IndexError, before savefig, so no image is written and main ends there.
\* (main gets here only after plot_high_quality_interviews_per_month
\* returned, that is, with at least two rows selected.)
plot_high_quality_interview_table ==
    /\ pc = "plot_high_quality_interview_table"
    /\ calls' = Append(calls, "plot_high_quality_interview_table")
    /\ df' = HighQualityTable(df).frame
    /\ IF HighQualityTable(df).table_data = <<>>
       THEN Abort("IndexError") /\ UNCHANGED <<files, written>>
       ELSE /\ written' = Append(written, "high_quality_interview_table.png")
            /\ files' = WriteFile(files, "high_quality_interview_table.png",
                           [colLabels |-> display_cols,
                            cellText |-> HighQualityTable(df).table_data])
            /\ pc' = "plot_closed_positions_distribution"
            /\ UNCHANGED err
    /\ UNCHANGED <<file, run, console, prevConsole, prevFiles>>

(***************************************************************************)
(* plot_closed_positions_distribution                                      *)
(***************************************************************************)
\* df['Closed'].value_counts(): the count of every status present.
StatusCounts(d) ==
    [s \in { d[i].Closed : i \in 1..Len(d) } |-> CountWhere(d, "Closed", s)]

\* count / total * 100
Pct(count, total) == Frac(count * 100, total)

\* The loop of lines 275-282: the bars of the closure-rate chart, as
\* <<quality, closure rate>> in the order appended.
RECURSIVE ChartClosureLoop(_, _)
ChartClosureLoop(d, qs) ==
    IF qs = <<>> THEN <<>>
    ELSE LET quality_df == SelectSeq(d, LAMBDA r : r.Quality = Head(qs))
             closed_count == Len(SelectSeq(quality_df, LAMBDA r : r.Closed = "Y"))
             total_count == Len(quality_df)
         IN  (IF total_count > 0
              THEN << <<Head(qs), Pct(closed_count, total_count)>> >>
              ELSE <<>>) \o ChartClosureLoop(d, Tail(qs))

ChartClosure(d) == ChartClosureLoop(d, Qualities(d))

plot_closed_positions_distribution ==
    /\ pc = "plot_closed_positions_distribution"
    /\ calls' = Append(calls, "plot_closed_positions_distribution")
    /\ written' = Append(written, "closed_positions_distribution.png")
    /\ files' = WriteFile(files, "closed_positions_distribution.png",
                   [status_counts |-> StatusCounts(df),
                    quality_closure |-> ChartClosure(df)])
    /\ pc' = "analyze_interview_success"
    /\ UNCHANGED <<file, run, df, err, console, prevConsole, prevFiles>>

(***************************************************************************)
(* analyze_interview_success                                               *)
(***************************************************************************)
\* YesMeanPct without the factor 100: the mean itself.
YesMean(x) == Mean([i \in 1..Len(x) |-> IF x[i] = "Y" THEN 1 ELSE 0])

\* (x == 'Y').mean() * 100 over a Series x of Interviews cells; the mean of
\* an empty Series is NaN, and NaN * 100 is NaN.
YesMeanPct(x) ==
    LET m == Mean([i \in 1..Len(x) |-> IF x[i] = "Y" THEN 1 ELSE 0])
    IN  Frac(m[1] * 100, m[2])

\* df.groupby('Quality')['Interviews'].apply(...): one group per quality
\* present, keys ascending.
InterviewRateByQuality(d) ==
    [k \in 1..Len(Qualities(d)) |->
        <<Qualities(d)[k],
          YesMeanPct(Column(SelectSeq(d, LAMBDA r : r.Quality = Qualities(d)[k]),
                            "Interviews"))>>]

\* df[df['Recruiter'] == v]['Interviews'].apply(lambda x: x == 'Y').mean() * 100
RecruiterRate(d, v) ==
    YesMeanPct(Column(SelectSeq(d, LAMBDA r : r.Recruiter = v), "Interviews"))

analyze_interview_success ==
    /\ pc = "analyze_interview_success"
    /\ calls' = Append(calls, "analyze_interview_success")
    /\ console' = [console EXCEPT
                     !.rate_by_quality = InterviewRateByQuality(df),
                     !.recruiter = <<[with |-> RecruiterRate(df, "Y"),
                                     without |-> RecruiterRate(df, "N")]>>]
    /\ pc' = "analyze_closed_positions"
    /\ UNCHANGED <<file, run, df, err, files, written, prevConsole, prevFiles>>

(***************************************************************************)
(* analyze_closed_positions                                                *)
(***************************************************************************)
\* StatusDistribution with every position that is not closed counted as
\* open, the unknown ones included.
StatusDistributionOpenIsNotClosed(d) ==
    LET total_positions == Len(d)
        closed_positions == CountWhere(d, "Closed", "Y")
        open_positions == Len(SelectSeq(d, LAMBDA r : r.Closed # "Y"))
        unknown_positions == CountWhere(d, "Closed", "I")
    IN  [total |-> total_positions,
         closed |-> closed_positions,
         open |-> open_positions,
         unknown |-> unknown_positions,
         closed_pct |-> Frac(closed_positions * 100, total_positions),
         open_pct |-> Frac(open_positions * 100, total_positions),
         unknown_pct |-> Frac(unknown_positions * 100, total_positions)]

\* Lines 304-312: the three counts with their share of the total.
StatusDistribution(d) ==
    LET total_positions == Len(d)
        closed_positions == CountWhere(d, "Closed", "Y")
        open_positions == CountWhere(d, "Closed", "N")
        unknown_positions == CountWhere(d, "Closed", "I")
    IN  [total |-> total_positions,
         closed |-> closed_positions,
         open |-> open_positions,
         unknown |-> unknown_positions,
         closed_pct |-> Pct(closed_positions, total_positions),
         open_pct |-> Pct(open_positions, total_positions),
         unknown_pct |-> Pct(unknown_positions, total_positions)]

\* ConsoleClosureLoop with the rate taken over all rows of the frame.
RECURSIVE ConsoleClosureOverAllRows(_, _)
ConsoleClosureOverAllRows(d, qs) ==
    IF qs = <<>> THEN <<>>
    ELSE LET quality_df == SelectSeq(d, LAMBDA r : r.Quality = Head(qs))
             quality_closed == Len(SelectSeq(quality_df, LAMBDA r : r.Closed = "Y"))
             quality_total == Len(quality_df)
         IN  (IF quality_total > 0
              THEN <<[quality |-> Head(qs), closed |-> quality_closed,
                      total |-> quality_total,
                      rate |-> Frac(quality_closed * 100, Len(d))]>>
              ELSE <<>>) \o ConsoleClosureOverAllRows(d, Tail(qs))

\* The loop of lines 316-322: the lines printed under "Closure Rate by
\* Quality", in the order printed.
RECURSIVE ConsoleClosureLoop(_, _)
ConsoleClosureLoop(d, qs) ==
    IF qs = <<>> THEN <<>>
    ELSE LET quality_df == SelectSeq(d, LAMBDA r : r.Quality = Head(qs))
             quality_closed == Len(SelectSeq(quality_df, LAMBDA r : r.Closed = "Y"))
             quality_total == Len(quality_df)
         IN  (IF quality_total > 0
              THEN <<[quality |-> Head(qs), closed |-> quality_closed,
                      total |-> quality_total,
                      rate |-> Pct(quality_closed, quality_total)]>>
              ELSE <<>>) \o ConsoleClosureLoop(d, Tail(qs))

ConsoleClosure(d) == ConsoleClosureLoop(d, Qualities(d))

\* Lines 325-334: the interview rate of the closed and of the open
\* positions, each printed only when there is such a position.
ClosedOpenInterview(d) ==
    LET closed_df == SelectSeq(d, LAMBDA r : r.Closed = "Y")
        open_df == SelectSeq(d, LAMBDA r : r.Closed = "N")
    IN  (IF Len(closed_df) > 0
         THEN << <<"closed", Pct(CountWhere(closed_df, "Interviews", "Y"),
                                  Len(closed_df))>> >>
         ELSE <<>>)
        \o
        (IF Len(open_df) > 0
         THEN << <<"open", Pct(CountWhere(open_df, "Interviews", "Y"),
                                Len(open_df))>> >>
         ELSE <<>>)

\* closed_by_month of line 339, computed only when a position is closed.
ClosedByMonth(d) == Resample(SelectSeq(d, LAMBDA r : r.Closed = "Y"))

\* Lines 337-342: the months printed, those in which positions were closed;
\* none, and no resample, when no position is closed.
ClosedTimeline(d) ==
    IF Len(SelectSeq(d, LAMBDA r : r.Closed = "Y")) > 0
    THEN SelectSeq(ClosedByMonth(d), LAMBDA b : b.count > 0)
    ELSE <<>>

\* With no rows, closed_positions/total_positions at line 310 divides the
\* int 0 by the int 0 and raises; nothing after the section title is printed.
\* (main does not get here with an empty frame: the first chart ends the
\* run before.)
analyze_closed_positions ==
    /\ pc = "analyze_closed_positions"
    /\ calls' = Append(calls, "analyze_closed_positions")
    /\ IF Len(df) = 0
       THEN Abort("ZeroDivisionError") /\ UNCHANGED console
       ELSE /\ console' = [console EXCEPT
                             !.status = <<StatusDistribution(df)>>,
                             !.closure_by_quality = ConsoleClosure(df),
                             !.closed_interview = ClosedOpenInterview(df),
                             !.timeline = ClosedTimeline(df)]
            /\ pc' = "generate_html_dashboard"
            /\ UNCHANGED err
    /\ UNCHANGED <<file, run, df, files, written, prevConsole, prevFiles>>

(***************************************************************************)
(* generate_html_dashboard                                                 *)
(***************************************************************************)
\* numerator / denominator * 100 if denominator > 0 else 0
GuardedPct(count, total) == IF total > 0 THEN Pct(count, total) ELSE Zero

\* The loop of lines 364-370: the dict interview_rates_by_quality, as its
\* items in insertion order.
RECURSIVE DashboardRateLoop(_, _)
DashboardRateLoop(d, qs) ==
    IF qs = <<>> THEN <<>>
    ELSE LET quality_df == SelectSeq(d, LAMBDA r : r.Quality = Head(qs))
             quality_interviews ==
                 Len(SelectSeq(quality_df, LAMBDA r : r.Interviews = "Y"))
             quality_total == Len(quality_df)
         IN  (IF quality_total > 0
              THEN << <<Head(qs), Pct(quality_interviews, quality_total)>> >>
              ELSE <<>>) \o DashboardRateLoop(d, Tail(qs))

DashboardRateByQuality(d) == DashboardRateLoop(d, Qualities(d))

\* Lines 373-383.
DashboardRecruiterRate(d, v) ==
    LET group == SelectSeq(d, LAMBDA r : r.Recruiter = v)
    IN  IF Len(group) > 0
        THEN Pct(CountWhere(group, "Interviews", "Y"), Len(group))
        ELSE Zero

\* DashboardImages with the table image under a name no chart is saved as.
DashboardImagesTableMisnamed ==
    <<"applications_over_time.png", "quality_distribution.png",
      "interviews_per_month.png", "high_quality_interviews_per_month.png",
      "closed_positions_distribution.png", "high_quality_interviews_table.png">>

\* The <img src=...> references of the page, in page order.
DashboardImages ==
    <<"applications_over_time.png", "quality_distribution.png",
      "interviews_per_month.png", "high_quality_interviews_per_month.png",
      "closed_positions_distribution.png", "high_quality_interview_table.png">>

\* Everything the page embeds.
Dashboard(d) ==
    LET total_apps == Len(d)
        interviews == CountWhere(d, "Interviews", "Y")
        closed_positions == CountWhere(d, "Closed", "Y")
        open_positions == CountWhere(d, "Closed", "N")
        unknown_positions == CountWhere(d, "Closed", "I")
    IN  [total_apps |-> total_apps,
         unique_companies |-> NUnique(Column(d, "Company")),
         interviews |-> interviews,
         interview_rate |-> GuardedPct(interviews, total_apps),
         recruiters |-> CountWhere(d, "Recruiter", "Y"),
         avg_quality |-> Mean(Column(d, "Quality")),
         closed_positions |-> closed_positions,
         open_positions |-> open_positions,
         unknown_positions |-> unknown_positions,
         closed_pct |-> GuardedPct(closed_positions, total_apps),
         open_pct |-> GuardedPct(open_positions, total_apps),
         unknown_pct |-> GuardedPct(unknown_positions, total_apps),
         interview_rates_by_quality |-> DashboardRateByQuality(d),
         recruiter_interview_rate |-> DashboardRecruiterRate(d, "Y"),
         no_recruiter_interview_rate |-> DashboardRecruiterRate(d, "N"),
         remote |-> CountWhere(d, "Local/Remote", "Remote"),
         local |-> CountWhere(d, "Local/Remote", "Local"),
         images |-> DashboardImages]

generate_html_dashboard ==
    /\ pc = "generate_html_dashboard"
    /\ calls' = Append(calls, "generate_html_dashboard")
    /\ written' = Append(written, "job_search_dashboard.html")
    /\ files' = WriteFile(files, "job_search_dashboard.html", Dashboard(df))
    /\ pc' = "done"
    /\ UNCHANGED <<file, run, df, err, console, prevConsole, prevFiles>>

(***************************************************************************)
(* Running the script again on the same input file: a new process, with    *)
(* the working directory as the previous run left it.  prevConsole and     *)
(* prevFiles keep what the previous run printed and left on disk.          *)
(***************************************************************************)
Rerun ==
    /\ pc \in {"done", "aborted"}
    /\ run < MaxRuns
    /\ run' = run + 1
    /\ pc' = "load_data"
    /\ df' = <<>>
    /\ err' = "none"
    /\ prevConsole' = console
    /\ prevFiles' = files
    /\ console' = NoConsole
    /\ calls' = <<>>
    /\ written' = <<>>
    /\ UNCHANGED <<file, files>>

(***************************************************************************)
(* The run.                                                                *)
(***************************************************************************)
Init ==
    /\ file \in InputFiles
    /\ pc = "load_data"
    /\ run = 1
    /\ df = <<>>
    /\ err = "none"
    /\ calls = <<>>
    /\ console = NoConsole
    /\ files = <<>>
    /\ written = <<>>
    /\ prevConsole = NoConsole
    /\ prevFiles = <<>>

Next ==
    \/ load_data
    \/ generate_basic_metrics
    \/ plot_applications_over_time
    \/ plot_quality_distribution
    \/ plot_interviews_per_month
    \/ plot_high_quality_interviews_per_month
    \/ plot_high_quality_interview_table
    \/ plot_closed_positions_distribution
    \/ analyze_interview_success
    \/ analyze_closed_positions
    \/ generate_html_dashboard
    \/ Rerun

Spec == Init /\ [][Next]_vars

(***************************************************************************)
(* What the claims speak about.                                            *)
(***************************************************************************)
\* main has called op in this run.
Called(op) == \E i \in 1..Len(calls) : calls[i] = op

\* main has called op in this run and op returned.
Returned(op) ==
    /\ Called(op)
    /\ ~(pc = "aborted" /\ calls[Len(calls)] = op)

Html == "job_search_dashboard.html"

\* The qualities that occur in frame d.
QualitiesPresent(d) == { d[i].Quality : i \in 1..Len(d) }

\* A rate that is a number between 0 and 100.
InPercentRange(rate) ==
    /\ rate # NaN
    /\ rate[2] > 0
    /\ 0 <= rate[1]
    /\ rate[1] <= 100 * rate[2]

(***************************************************************************)
(* C1                                                                      *)
(***************************************************************************)
\* C1: for a non-empty record set, the closed, open and unknown counts that
\* generate_basic_metrics, analyze_closed_positions and
\* generate_html_dashboard compute add up to the total count len(df).
C1_StatusCountsSumToTotal ==
    Len(df) > 0 =>
        /\ Returned("generate_basic_metrics") =>
              LET b == console.basic[1]
              IN  b.total = Len(df) /\ b.closed + b.open + b.unknown = b.total
        /\ Returned("analyze_closed_positions") =>
              LET t == console.status[1]
              IN  t.total = Len(df) /\ t.closed + t.open + t.unknown = t.total
        /\ Returned("generate_html_dashboard") =>
              LET h == files[Html]
              IN  /\ h.total_apps = Len(df)
                  /\ h.closed_positions + h.open_positions + h.unknown_positions
                        = h.total_apps

\* C1 witness: a finished run on three rows, one of each status.
C1_Witness ==
    /\ pc = "done"
    /\ Len(df) = 3
    /\ console.status[1].closed = 1
    /\ console.status[1].open = 1
    /\ console.status[1].unknown = 1
    /\ console.basic[1].unknown = 1
    /\ files[Html].unknown_positions = 1

(***************************************************************************)
(* C2                                                                      *)
(***************************************************************************)
\* C2: on an empty record set no operation of the run raises, and every rate
\* the run reports is 0 or an empty mapping.
C2_EmptyRunReportsZeroAndNeverRaises ==
    (Returned("load_data") /\ Len(df) = 0) =>
        /\ err = "none"
        /\ console.rate_by_quality = <<>>
        /\ console.closure_by_quality = <<>>
        /\ \A i \in 1..Len(console.recruiter) :
              console.recruiter[i].with = Zero /\ console.recruiter[i].without = Zero
        /\ \A i \in 1..Len(console.status) :
              /\ console.status[i].closed_pct = Zero
              /\ console.status[i].open_pct = Zero
              /\ console.status[i].unknown_pct = Zero
        /\ Returned("generate_html_dashboard") =>
              /\ files[Html].interview_rate = Zero
              /\ files[Html].closed_pct = Zero
              /\ files[Html].open_pct = Zero
              /\ files[Html].unknown_pct = Zero
              /\ files[Html].interview_rates_by_quality = <<>>
              /\ files[Html].recruiter_interview_rate = Zero
              /\ files[Html].no_recruiter_interview_rate = Zero

(***************************************************************************)
(* C3                                                                      *)
(***************************************************************************)
\* C3: the Quality-1 and Quality-2 series of
\* plot_high_quality_interviews_per_month have the same month axis, the axis
\* holds every calendar month between its first and its last month, and a
\* tier without interviews in a month has count 0 there.
C3_AlignedGapFreeMonthAxis ==
    Returned("plot_high_quality_interviews_per_month") =>
        LET c == files["high_quality_interviews_per_month.png"]
            InMonth(q, m) ==
                Cardinality({ i \in 1..Len(df) :
                                /\ df[i].Interviews = "Y"
                                /\ df[i].Quality = q
                                /\ MonthOrd(df[i].Date) = MonthOrd(m) })
        IN  /\ Len(c.monthly_q1) = Len(c.all_months)
            /\ Len(c.monthly_q2) = Len(c.all_months)
            /\ \A k \in 1..Len(c.all_months) :
                  /\ c.monthly_q1[k].month = c.all_months[k]
                  /\ c.monthly_q2[k].month = c.all_months[k]
                  /\ c.monthly_q1[k].count = InMonth(1, c.all_months[k])
                  /\ c.monthly_q2[k].count = InMonth(2, c.all_months[k])
            /\ \A k \in 1..(Len(c.all_months) - 1) :
                  MonthOrd(c.all_months[k + 1]) = MonthOrd(c.all_months[k]) + 1

(***************************************************************************)
(* C4                                                                      *)
(***************************************************************************)
\* The items of an interview-rate-by-quality mapping: one key for every
\* quality present in d and no other, every value a number in [0, 100].
RatesByQualityOK(entries, d) ==
    /\ { entries[k][1] : k \in 1..Len(entries) } = QualitiesPresent(d)
    /\ Len(entries) = Cardinality(QualitiesPresent(d))
    /\ \A k \in 1..Len(entries) : InPercentRange(entries[k][2])

\* C4: the interview rate by quality, as analyze_interview_success prints it
\* and as generate_html_dashboard embeds it, has a key for exactly the
\* qualities that occur, and every value is in [0, 100] and not NaN.  The
\* two computations are checked on every loaded record set, and what is
\* printed and embedded is checked where the run gets that far.
C4_InterviewRateByQualityInRange ==
    /\ Returned("load_data") =>
          /\ RatesByQualityOK(InterviewRateByQuality(df), df)
          /\ RatesByQualityOK(DashboardRateByQuality(df), df)
    /\ Returned("analyze_interview_success") =>
          RatesByQualityOK(console.rate_by_quality, df)
    /\ Returned("generate_html_dashboard") =>
          RatesByQualityOK(files[Html].interview_rates_by_quality, df)

\* C4 witness: a finished run in which quality 3 does not occur and quality
\* 1 has a rate strictly between 0 and 100.
C4_Witness ==
    /\ pc = "done"
    /\ QualitiesPresent(df) = {1, 2}
    /\ console.rate_by_quality = << <<1, <<50, 1>> >>, <<2, <<100, 1>> >> >>
    /\ files[Html].interview_rates_by_quality
          = << <<1, <<50, 1>> >>, <<2, <<100, 1>> >> >>

(***************************************************************************)
(* C5                                                                      *)
(***************************************************************************)
\* C5: for a non-empty record set the recruiter-impact rate of a group is
\* interviewed / size * 100, and 0 when the group is empty, both on the
\* console and in the dashboard.
C5_EmptyRecruiterGroupReportsZero ==
    Len(df) > 0 =>
        \A v \in {"Y", "N"} :
            LET size == Cardinality({ i \in 1..Len(df) : df[i].Recruiter = v })
                interviewed ==
                    Cardinality({ i \in 1..Len(df) :
                                    df[i].Recruiter = v /\ df[i].Interviews = "Y" })
                expected == IF size = 0 THEN Zero ELSE Frac(interviewed * 100, size)
            IN  /\ Returned("analyze_interview_success") =>
                      (IF v = "Y" THEN console.recruiter[1].with
                                  ELSE console.recruiter[1].without) = expected
                /\ Returned("generate_html_dashboard") =>
                      (IF v = "Y" THEN files[Html].recruiter_interview_rate
                                  ELSE files[Html].no_recruiter_interview_rate)
                          = expected

(***************************************************************************)
(* C6                                                                      *)
(***************************************************************************)
\* A monthly count series of the non-empty subset sub: chronological, one
\* bucket for every calendar month from the month of the earliest date to
\* the month of the latest date of sub and none outside, every bucket
\* holding the number of rows of sub dated in its month.
MonthlyCountsOK(series, sub) ==
    sub # <<>> =>
        LET first == CHOOSE i \in 1..Len(sub) :
                        \A j \in 1..Len(sub) : ~Earlier(sub[j].Date, sub[i].Date)
            last == CHOOSE i \in 1..Len(sub) :
                        \A j \in 1..Len(sub) : ~Earlier(sub[i].Date, sub[j].Date)
            span == MonthOrd(sub[last].Date) - MonthOrd(sub[first].Date) + 1
        IN  /\ Len(series) = span
            /\ MonthOrd(series[1].month) = MonthOrd(sub[first].Date)
            /\ MonthOrd(series[Len(series)].month) = MonthOrd(sub[last].Date)
            /\ \A k \in 1..(Len(series) - 1) :
                  MonthOrd(series[k + 1].month) = MonthOrd(series[k].month) + 1
            /\ \A k \in 1..Len(series) :
                  series[k].count =
                      Cardinality({ i \in 1..Len(sub) :
                          /\ sub[i].Date.year = series[k].month.year
                          /\ sub[i].Date.month = series[k].month.month })
            /\ (span = 1 => Len(series) = 1 /\ series[1].count = Len(sub))

\* C6: the monthly series of all records, of the interviewed records and of
\* the closed records each have one bucket per calendar month from the
\* earliest to the latest month of their subset, in order, with the number
\* of matching records of that month (0 for a month without any).
C6_MonthlyCountsCoverTheRange ==
    /\ Returned("plot_applications_over_time") =>
          MonthlyCountsOK(files["applications_over_time.png"], df)
    /\ Returned("plot_interviews_per_month") =>
          MonthlyCountsOK(files["interviews_per_month.png"].series,
                          SelectSeq(df, LAMBDA r : r.Interviews = "Y"))
    /\ Returned("analyze_closed_positions") =>
          /\ MonthlyCountsOK(ClosedByMonth(df),
                             SelectSeq(df, LAMBDA r : r.Closed = "Y"))
          /\ \A k \in 1..Len(console.timeline) :
                \E j \in 1..Len(ClosedByMonth(df)) :
                    console.timeline[k] = ClosedByMonth(df)[j]

\* C6 witness: a finished run whose interviews fall in December 2024 and in
\* March 2025: four buckets, the two in between with count 0.
C6_Witness ==
    /\ pc = "done"
    /\ Len(files["interviews_per_month.png"].series) = 4
    /\ files["interviews_per_month.png"].series[2].count = 0
    /\ files["interviews_per_month.png"].series[3].count = 0
    /\ Len(files["applications_over_time.png"]) = 4
    /\ console.timeline # <<>>
    /\ Len(ClosedByMonth(df)) = 4

(***************************************************************************)
(* C7                                                                      *)
(***************************************************************************)
\* The display row of a frame row: its six cells, the date as text.
DisplayRow(r) ==
    <<strftime(r.Date), r.Company, r.Title, r.Quality, r["Local/Remote"], r.Closed>>

\* The rows of a high-quality interview table of frame d: the records with
\* Quality 1 or 2 and Interviews 'Y', each once and no other, by
\* non-decreasing date.
TableRowsOK(cellText, d) ==
    LET matching == { i \in 1..Len(d) :
                        d[i].Quality \in {1, 2} /\ d[i].Interviews = "Y" }
    IN  /\ Len(cellText) = Cardinality(matching)
        /\ \A i \in matching :
              Cardinality({ k \in 1..Len(cellText) :
                              cellText[k] = DisplayRow(d[i]) })
                = Cardinality({ j \in matching :
                                  DisplayRow(d[j]) = DisplayRow(d[i]) })
        /\ \A k \in 1..Len(cellText) :
              \E i \in matching : cellText[k] = DisplayRow(d[i])
        /\ \A k \in 1..(Len(cellText) - 1) :
              ~Earlier(to_datetime(cellText[k + 1][1]),
                       to_datetime(cellText[k][1]))

\* C7: the rows of the high-quality interview table are the records with
\* Quality 1 or 2 and Interviews 'Y', each once and no other, by
\* non-decreasing date, with the cells Date, Company, Title, Quality,
\* Local/Remote, Closed in that order.  This is true of the rows the
\* function builds for every record set it is called with, and of the rows
\* of the saved table when it returns.
C7_TableRowsAreTheHighQualityInterviews ==
    /\ Called("plot_high_quality_interview_table") =>
          /\ display_cols = <<"Date", "Company", "Title", "Quality",
                               "Local/Remote", "Closed">>
          /\ TableRowsOK(HighQualityTable(df).table_data, df)
    /\ Returned("plot_high_quality_interview_table") =>
          LET t == files["high_quality_interview_table.png"]
          IN  /\ t.colLabels = <<"Date", "Company", "Title", "Quality",
                                 "Local/Remote", "Closed">>
              /\ TableRowsOK(t.cellText, df)

\* C7 witness: three rows in the file, the first a quality-3 interview, the
\* other two high-quality interviews listed latest first; the table holds
\* the two, earliest first.
C7_Witness ==
    /\ Returned("plot_high_quality_interview_table")
    /\ Len(df) = 3
    /\ df[1].Quality = 3 /\ df[1].Interviews = "Y"
    /\ Earlier(df[3].Date, df[2].Date)
    /\ Len(files["high_quality_interview_table.png"].cellText) = 2
    /\ files["high_quality_interview_table.png"].cellText[1] = DisplayRow(df[3])
    /\ files["high_quality_interview_table.png"].cellText[1][1].yyyy = 2024
    /\ files["high_quality_interview_table.png"].cellText[2][1].yyyy = 2025

(***************************************************************************)
(* C8                                                                      *)
(***************************************************************************)
\* Closure-rate entries <<quality, rate>> of frame d: qualities ascending,
\* one entry for every quality present and no other, the rate being
\* closed / total * 100 within the quality.
ClosureEntriesOK(entries, d) ==
    /\ \A k \in 1..(Len(entries) - 1) : entries[k][1] < entries[k + 1][1]
    /\ { entries[k][1] : k \in 1..Len(entries) } = QualitiesPresent(d)
    /\ \A k \in 1..Len(entries) :
          LET of_quality == { i \in 1..Len(d) : d[i].Quality = entries[k][1] }
              closed == { i \in of_quality : d[i].Closed = "Y" }
          IN  entries[k][2] =
                  Frac(Cardinality(closed) * 100, Cardinality(of_quality))

\* C8: the closure rate by quality of the chart lists the qualities present
\* in ascending order with closed / total * 100 each, and the console
\* analysis prints the same entries.  The two loops are checked on every
\* loaded record set, and the chart and the console where the run gets that
\* far.
C8_ClosureRateByQuality ==
    /\ Returned("load_data") =>
          /\ ClosureEntriesOK(ChartClosure(df), df)
          /\ [k \in 1..Len(ConsoleClosure(df)) |->
                <<ConsoleClosure(df)[k].quality, ConsoleClosure(df)[k].rate>>]
              = ChartClosure(df)
    /\ Returned("plot_closed_positions_distribution") =>
          ClosureEntriesOK(files["closed_positions_distribution.png"].quality_closure,
                           df)
    /\ Called("analyze_closed_positions") =>
          [k \in 1..Len(console.closure_by_quality) |->
              <<console.closure_by_quality[k].quality,
                console.closure_by_quality[k].rate>>]
            = files["closed_positions_distribution.png"].quality_closure

\* C8 witness: a finished run with qualities 1 and 2, half of the quality-1
\* positions closed and no quality-2 position closed.
C8_Witness ==
    /\ pc = "done"
    /\ Len(console.closure_by_quality) = 2
    /\ console.closure_by_quality[1].quality = 1
    /\ console.closure_by_quality[1].rate = <<50, 1>>
    /\ console.closure_by_quality[2].quality = 2
    /\ console.closure_by_quality[2].rate = <<0, 1>>
    /\ files["closed_positions_distribution.png"].quality_closure
          = << <<1, <<50, 1>> >>, <<2, <<0, 1>> >> >>

(***************************************************************************)
(* C9                                                                      *)
(***************************************************************************)
\* C9: a second run on the same input prints the same metric values as the
\* first and leaves every output file with the same content.
C9_SecondRunSameOutputs ==
    (run > 1 /\ pc \in {"done", "aborted"}) =>
        /\ console = prevConsole
        /\ files = prevFiles

\* C9 witness: the second run on a three-row file has finished, dashboard
\* included.
C9_Witness ==
    /\ run = 2
    /\ pc = "done"
    /\ Len(df) = 3
    /\ Html \in DOMAIN prevFiles
    /\ files[Html].total_apps = 3
    /\ console.status # <<>>

(***************************************************************************)
(* C10                                                                     *)
(***************************************************************************)
\* C10: no operation main invokes after load_data changes the record set:
\* same rows, same order, same cells.
C10_FrameNeverMutated ==
    [][(pc # "load_data" /\ pc' # "load_data") => df' = df]_vars

\* C10 witness: the table function has formatted the dates of its own rows
\* as text, and the frame's rows still hold the Timestamps load_data made.
C10_Witness ==
    /\ pc = "done"
    /\ Len(df) = 3
    /\ Len(files["high_quality_interview_table.png"].cellText) = 3
    /\ \A i \in 1..Len(df) : df[i].Date = to_datetime(file.rows[i].Date)

(***************************************************************************)
(* C11                                                                     *)
(***************************************************************************)
PlotCalls ==
    { "plot_applications_over_time", "plot_quality_distribution",
      "plot_interviews_per_month", "plot_high_quality_interviews_per_month",
      "plot_high_quality_interview_table", "plot_closed_positions_distribution" }

MetricCalls ==
    { "generate_basic_metrics", "analyze_interview_success",
      "analyze_closed_positions" }

\* The record set is loaded first and once.
LoadedOnceFirst ==
    calls # <<>> =>
        /\ calls[1] = "load_data"
        /\ \A i \in 2..Len(calls) : calls[i] # "load_data"

\* No chart is rendered after the HTML document has been written.
NoChartAfterDocument ==
    \A i, j \in 1..Len(calls) :
        (i < j /\ calls[i] = "generate_html_dashboard") => calls[j] \notin PlotCalls

\* C11 as stated: load once before anything else, no metric computation
\* step after the first chart, no chart after the HTML document.
C11_MetricsBeforeCharts ==
    /\ LoadedOnceFirst
    /\ \A i, j \in 1..Len(calls) :
          (i < j /\ calls[i] \in PlotCalls) => calls[j] \notin MetricCalls
    /\ NoChartAfterDocument

\* The calls of main, in the order of its body.
MainOrder ==
    <<"load_data", "generate_basic_metrics", "plot_applications_over_time",
      "plot_quality_distribution", "plot_interviews_per_month",
      "plot_high_quality_interviews_per_month",
      "plot_high_quality_interview_table",
      "plot_closed_positions_distribution", "analyze_interview_success",
      "analyze_closed_positions", "generate_html_dashboard">>

\* C11 amended: load once before anything else; generate_basic_metrics comes
\* before the first chart, analyze_interview_success and
\* analyze_closed_positions come after the last chart and before the HTML
\* document; no chart after the HTML document.  The calls of a run are an
\* initial part of: load, basic metrics, the six charts, the two analyses,
\* the document.
C11_PhasesInMainOrder ==
    /\ LoadedOnceFirst
    /\ NoChartAfterDocument
    /\ Len(calls) <= Len(MainOrder)
    /\ \A i \in 1..Len(calls) : calls[i] = MainOrder[i]

\* C11 witness: a finished run; the two analyses were called after the six
\* charts and before the document.
C11_Witness ==
    /\ pc = "done"
    /\ Len(calls) = 11
    /\ calls[8] = "plot_closed_positions_distribution"
    /\ calls[9] = "analyze_interview_success"
    /\ calls[10] = "analyze_closed_positions"
    /\ calls[11] = "generate_html_dashboard"

(***************************************************************************)
(* C12                                                                     *)
(***************************************************************************)
\* The Date cell names a day of the calendar.
CalendarDate(text) ==
    /\ 1 <= text.mm /\ text.mm <= 12
    /\ 1 <= text.dd
    /\ text.dd <= (IF text.mm = 2
                   THEN (IF IsLeap(text.yyyy) THEN 29 ELSE 28)
                   ELSE IF text.mm \in {4, 6, 9, 11} THEN 30 ELSE 31)

\* The input file is missing, has no header line, or has a row whose Date
\* is not a date.
InputUnloadable ==
    \/ ~file.exists
    \/ ~file.header
    \/ \E i \in 1..Len(file.rows) : ~CalendarDate(file.rows[i].Date)

\* C12: when the load step fails the run aborts there: nothing is printed,
\* no image and no HTML document is written in that run.
C12_FailedLoadAbortsTheRun ==
    (Called("load_data") /\ InputUnloadable) =>
        /\ pc = "aborted"
        /\ err \in {"FileNotFoundError", "EmptyDataError", "ValueError"}
        /\ calls = <<"load_data">>
        /\ df = <<>>
        /\ console = NoConsole
        /\ written = <<>>

\* C12 witness: a three-row file whose last row is dated 02/30/2025; the
\* run has aborted in load_data.
C12_Witness ==
    /\ pc = "aborted"
    /\ err = "ValueError"
    /\ Len(file.rows) = 3
    /\ CalendarDate(file.rows[1].Date)
    /\ CalendarDate(file.rows[2].Date)
    /\ file.rows[3].Date = DateText(2, 30, 2025)
    /\ written = <<>>

(***************************************************************************)
(* C13                                                                     *)
(***************************************************************************)
\* The three-record input of the scenario: (Quality 1, interviewed, closed),
\* (Quality 2, not interviewed, open), (Quality 1, interviewed, open).
ScenarioInput ==
    /\ Len(df) = 3
    /\ df[1].Quality = 1 /\ df[1].Interviews = "Y" /\ df[1].Closed = "Y"
    /\ df[2].Quality = 2 /\ df[2].Interviews = "N" /\ df[2].Closed = "N"
    /\ df[3].Quality = 1 /\ df[3].Interviews = "Y" /\ df[3].Closed = "N"

\* C13: the run on the scenario input reports the interview rate by quality
\* {1: 100.0, 2: 0.0}, the closure rate by quality {1: 50.0, 2: 0.0}, the
\* total 3, the closed count 1 and the open count 2: it does not end before
\* it has reported them, and what it reports has these values.
C13_ThreeRecordScenario ==
    ScenarioInput =>
        /\ pc \in {"done", "aborted"} =>
              /\ Returned("analyze_interview_success")
              /\ Returned("analyze_closed_positions")
              /\ Returned("generate_html_dashboard")
        /\ Returned("generate_basic_metrics") =>
              /\ console.basic[1].total = 3
              /\ console.basic[1].closed = 1
              /\ console.basic[1].open = 2
        /\ Returned("analyze_interview_success") =>
              console.rate_by_quality
                  = << <<1, <<100, 1>> >>, <<2, <<0, 1>> >> >>
        /\ Returned("analyze_closed_positions") =>
              /\ Len(console.closure_by_quality) = 2
              /\ console.closure_by_quality[1].quality = 1
              /\ console.closure_by_quality[1].rate = <<50, 1>>
              /\ console.closure_by_quality[2].quality = 2
              /\ console.closure_by_quality[2].rate = <<0, 1>>
        /\ Returned("generate_html_dashboard") =>
              /\ files[Html].interview_rates_by_quality
                    = << <<1, <<100, 1>> >>, <<2, <<0, 1>> >> >>
              /\ files[Html].total_apps = 3
              /\ files[Html].closed_positions = 1
              /\ files[Html].open_positions = 2

(***************************************************************************)
(* C14                                                                     *)
(***************************************************************************)
\* The position of the HTML document among the files this run has written.
DocumentWrite == CHOOSE i \in 1..Len(written) : written[i] = Html

\* C14: the images the HTML document references are the image files the six
\* plot_* functions save, and each of them was written in the same run
\* before the document.
C14_DocumentReferencesTheSavedImages ==
    Returned("generate_html_dashboard") =>
        LET referenced == { files[Html].images[k] :
                              k \in 1..Len(files[Html].images) }
            saved == { written[i] : i \in 1..Len(written) } \ {Html}
        IN  /\ referenced = saved
            /\ Cardinality(saved) = Cardinality(PlotCalls)
            /\ \A img \in referenced :
                  /\ img \in DOMAIN files
                  /\ \E i \in 1..Len(written) :
                        written[i] = img /\ i < DocumentWrite

\* C14 witness: the second run has written its six images and then the
\* document.
C14_Witness ==
    /\ run = 2
    /\ pc = "done"
    /\ Len(written) = 7
    /\ written[7] = Html
    /\ Len(files[Html].images) = 6

(***************************************************************************)
(* C15                                                                     *)
(***************************************************************************)
\* C15: the interview rate by quality that analyze_interview_success prints
\* and the one generate_html_dashboard embeds are the same mapping: same
\* keys, in the same ascending order, with the same values.  The two
\* computations are compared on every loaded record set, the console
\* mapping with the dashboard's computation on the same frame as soon as it
\* is printed, and with the embedded mapping once the page is written.
C15_ConsoleAndDashboardRatesAgree ==
    /\ Returned("load_data") =>
          InterviewRateByQuality(df) = DashboardRateByQuality(df)
    /\ Returned("analyze_interview_success") =>
          /\ console.rate_by_quality = DashboardRateByQuality(df)
          /\ \A k \in 1..(Len(console.rate_by_quality) - 1) :
                console.rate_by_quality[k][1] < console.rate_by_quality[k + 1][1]
    /\ Returned("generate_html_dashboard") =>
          console.rate_by_quality = files[Html].interview_rates_by_quality

\* C15 witness: a finished run with the rows not in quality order and a
\* rate that is neither 0 nor 100.
C15_Witness ==
    /\ pc = "done"
    /\ Len(df) = 3
    /\ df[1].Quality = 2
    /\ df[2].Quality = 2
    /\ df[3].Quality = 1
    /\ files[Html].interview_rates_by_quality
          = << <<1, <<100, 1>> >>, <<2, <<50, 1>> >> >>
    /\ console.rate_by_quality[2] = <<2, <<50, 1>> >>

(***************************************************************************)
(* C16                                                                     *)
(***************************************************************************)
\* The counts of a monthly series.
Counts(series) == [k \in 1..Len(series) |-> series[k].count]

\* C16: for every record set plot_high_quality_interviews_per_month is
\* called with, it builds the aligned series, and their Quality-1 and
\* Quality-2 counts add up, over all months, to the number of records with
\* Quality 1 or 2 and Interviews 'Y'; this is the number of rows
\* plot_high_quality_interview_table builds and saves.
C16_AlignedCountsSumToTableRows ==
    LET matching == { i \in 1..Len(df) :
                        df[i].Quality \in {1, 2} /\ df[i].Interviews = "Y" }
    IN  /\ Called("plot_high_quality_interviews_per_month") =>
              /\ Returned("plot_high_quality_interviews_per_month")
              /\ LET c == files["high_quality_interviews_per_month.png"]
                 IN  SumSeq(Counts(c.monthly_q1)) + SumSeq(Counts(c.monthly_q2))
                         = Cardinality(matching)
        /\ Called("plot_high_quality_interview_table") =>
              Len(HighQualityTable(df).table_data) = Cardinality(matching)
        /\ Returned("plot_high_quality_interview_table") =>
              Len(files["high_quality_interview_table.png"].cellText)
                  = Cardinality(matching)
=============================================================================
